---- MODULE Spec2Model ----
(***************************************************************************)
(* The browser-side controllers of ExplainIt.                              *)
(*                                                                         *)
(*   frontend/app.js   the dashboard controller: upload, analysis list,    *)
(*                     selection, explanation panel with a cache           *)
(*   unnamed/part_000  the list-page controller: upload, analysis list,    *)
(*                     one "explain" button and output box per function    *)
(*                                                                         *)
(* A page loads one of the two scripts; `controller` says which.  Every    *)
(* async handler is split at its await: the part before it is one action,  *)
(* the continuation that runs when the response lands is another.  The two *)
(* awaits of a handler (fetch, then response.json()) are one suspension:   *)
(* no state is read or written between them.                               *)
(***************************************************************************)
EXTENDS Integers, Sequences, FiniteSets, TLC

\* ------------------------------------------------------------- bounds
MaxUploads  == 2    \* upload events in one behaviour
MaxExplains == 2    \* explain requests of the dashboard in one behaviour
MaxListExplains == 1  \* explain requests of the list page in one behaviour
MaxBlocks   == 4    \* blocks of an explanation

\* ------------------------------------------------------------- values
\* Every change or drop event hands over a new File object: the file of
\* the k-th upload event is k, and NoFile is null.
NoFile == 0

\* Function records as the handlers use them: the name (cache key, query
\* parameter, DOM id) and the risk level, which is only copied into markup.
Names  == {"f", "g"}
Levels == {"high"}
FuncRecords == [name : Names, risk_level : Levels]

\* The function lists an analyze response may carry: every sequence of
\* records with pairwise different names (a name is unique within one
\* response), the empty one included.
FuncLists ==
    {fs \in UNION {[1..n -> FuncRecords] : n \in 0..Cardinality(Names)} :
        \A i, j \in DOMAIN fs : fs[i].name = fs[j].name => i = j}

\* An optional value: <<>> is null, <<x>> is x.
None    == <<>>
Some(x) == <<x>>

\* Explanation texts a service may return; "" is the empty string.
Explanations == {"", "e1", "e2"}
\* The value of data.explanation when the body has no such field.
Undefined == "<undefined>"
\* JavaScript truthiness of a cache value.
Truthy(v) == v \notin {"", Undefined}

\* ------------------------------------------------------ HTTP responses
\* What the Analysis Service may answer.  fetch rejects (network error), or
\* resolves with a status (ok = 2xx) and a body: not JSON, a JSON object
\* without a `functions` field, or one with it.
AnalyzeResponses ==
    [fetch : {"rejects"}, ok : {FALSE}, json : {"none"},
     functions : {<<>>}, explanation : {Undefined}]
    \cup
    [fetch : {"resolves"}, ok : BOOLEAN, json : {"malformed"},
     functions : {<<>>}, explanation : {Undefined}]
    \cup
    [fetch : {"resolves"}, ok : BOOLEAN, json : {"no_functions"},
     functions : {<<>>}, explanation : {Undefined}]
    \cup
    [fetch : {"resolves"}, ok : BOOLEAN, json : {"object"},
     functions : FuncLists, explanation : {Undefined}]

\* What the Explanation Service may answer: as above, the JSON object with
\* or without an `explanation` field.
ExplainResponses ==
    [fetch : {"rejects"}, ok : {FALSE}, json : {"none"},
     functions : {<<>>}, explanation : {Undefined}]
    \cup
    [fetch : {"resolves"}, ok : BOOLEAN, json : {"malformed"},
     functions : {<<>>}, explanation : {Undefined}]
    \cup
    [fetch : {"resolves"}, ok : BOOLEAN, json : {"object"},
     functions : {<<>>}, explanation : Explanations \cup {Undefined}]

\* -------------------------------------------------------------- state
VARIABLES
    controller,        \* "app" (frontend/app.js) or "list" (unnamed/part_000)
    currentFile,       \* let currentFile
    currentSelection,  \* app: let currentSelection (None or Some(funcData))
    functionCache,     \* app: let functionCache, a function on its keys
    fileNameDisplay,   \* app: fileTree / fileNameDisplay text
    codeContent,       \* app: the code viewer
    analysisContent,   \* app: [kind, message, items]
    geminiPanelHidden, \* app: geminiPanel has class "hidden"
    geminiContent,     \* app: [kind, text]
    btnAskText,        \* app: btnAsk.innerText
    btnAskDisabled,    \* app: btnAsk.disabled
    fileNameTitle,     \* list: [kind, file]
    resultsAreaShown,  \* list: resultsArea.style.display = "block"
    functionsList,     \* list: [kind, message, items]
    alert,             \* list: the alert() dialog the last step raised, "" when none
    analyzeReqs,       \* analyze requests in flight
    explainReqs,       \* explain requests in flight
    uploads,           \* upload events so far
    analyzeSent,       \* analyze requests sent so far
    analyzeArrived,    \* analyze responses handled so far
    landed,            \* the response the last step handled, None when it handled none
    explainPassed,     \* app: activations that passed the file/selection guard
    explainSent,       \* explain requests sent so far
    blocks,            \* app: the blocks of the explanation marked.parse converts
    htmlContent        \* app: let htmlContent of fetchExplanation, None before it is built

appVars  == <<currentSelection, functionCache, fileNameDisplay, codeContent,
              analysisContent, geminiPanelHidden, geminiContent, btnAskText,
              btnAskDisabled, explainPassed>>
listVars == <<fileNameTitle, resultsAreaShown, functionsList, alert>>
netVars  == <<analyzeReqs, explainReqs>>
countVars == <<uploads, analyzeSent, analyzeArrived, explainSent>>
wrapVars == <<blocks, htmlContent>>
sessionVars == <<controller, currentFile, appVars, listVars, netVars, countVars,
                 landed>>
vars == <<sessionVars, wrapVars>>

EmptyCache == [n \in {} |-> ""]
CachePut(cache, key, value) ==
    [n \in (DOMAIN cache) \cup {key} |-> IF n = key THEN value ELSE cache[n]]

\* The response a step handled: of which kind, for the analyze request sent as
\* number `id` or the explain request for function `name`.
Landed(kind, req, resp) ==
    Some([kind |-> kind, id |-> IF kind = "analyze" THEN req.id ELSE 0,
          name |-> req.name, resp |-> resp])

Content(kind, text) == [kind |-> kind, text |-> text]
Area(kind, message, items) == [kind |-> kind, message |-> message, items |-> items]

Init ==
    /\ controller \in {"app", "list"}
    /\ currentFile = NoFile
    /\ currentSelection = None
    /\ functionCache = EmptyCache
    /\ fileNameDisplay = NoFile
    /\ codeContent = "initial"
    /\ analysisContent = Area("initial", "", <<>>)
    /\ geminiPanelHidden = TRUE
    /\ geminiContent = Content("initial", "")
    /\ btnAskText = "initial"
    /\ btnAskDisabled = FALSE
    /\ fileNameTitle = [kind |-> "initial", file |-> NoFile]
    /\ resultsAreaShown = FALSE
    /\ functionsList = Area("initial", "", <<>>)
    /\ alert = ""
    /\ analyzeReqs = {}
    /\ explainReqs = {}
    /\ uploads = 0
    /\ analyzeSent = 0
    /\ analyzeArrived = 0
    /\ landed = None
    /\ explainPassed = 0
    /\ explainSent = 0
    /\ blocks = <<>>
    /\ htmlContent = None

\* The File object the next upload event hands over.
NewFile == uploads + 1

\* ===================================================== frontend/app.js

\* The request handleFileUpload sends: the file is captured in the FormData
\* and in the continuation's closure.
AnalyzeRequest(file) == [id |-> analyzeSent + 1, file |-> file, name |-> ""]

\* handleFileUpload(file), up to the await of fetch.
handleFileUpload(file) ==
    /\ controller = "app"
    /\ uploads < MaxUploads
    /\ currentFile' = file
    /\ functionCache' = EmptyCache
    /\ fileNameDisplay' = file
    /\ landed' = None
    /\ codeContent' = "Loading code..."
    /\ analysisContent' = Area("Analyzing...", "", <<>>)
    /\ geminiPanelHidden' = TRUE
    /\ analyzeReqs' = analyzeReqs \cup {AnalyzeRequest(file)}
    /\ uploads' = uploads + 1
    /\ analyzeSent' = analyzeSent + 1
    /\ UNCHANGED <<wrapVars, controller, currentSelection, geminiContent, btnAskText,
                   btnAskDisabled, explainPassed, listVars, explainReqs,
                   analyzeArrived, explainSent>>

\* A faulty AnalyzeThrows: the status is not tested.
AnalyzeThrowsIgnoringStatus(resp) ==
    \/ resp.fetch = "rejects"
    \/ resp.json = "malformed"

\* Whether the try block of handleFileUpload throws: fetch rejected, the
\* status is not 2xx, or response.json() rejected.
AnalyzeThrows(resp) ==
    \/ resp.fetch = "rejects"
    \/ ~resp.ok
    \/ resp.json = "malformed"

\* error.message in the catch block.
ErrorMessage(resp) ==
    IF resp.fetch = "rejects" THEN "Failed to fetch"
    ELSE IF ~resp.ok THEN "Analysis failed"
    ELSE "Unexpected token"

\* An entry of the analysis list: the element with the record its click
\* listener closes over.
Item(func) == [func |-> func, selected |-> FALSE]

\* A faulty renderAnalysis: the former entries are not removed.
renderAnalysisAppending(resp) ==
    IF resp.json = "no_functions" \/ Len(resp.functions) = 0
    THEN Area("No functions found.", "", <<>>)
    ELSE Area("list", "",
              analysisContent.items \o
                 [i \in 1..Len(resp.functions) |-> Item(resp.functions[i])])

\* renderAnalysis(functions): the new content of analysisContent.
renderAnalysis(resp) ==
    IF resp.json = "no_functions" \/ Len(resp.functions) = 0
    THEN Area("No functions found.", "", <<>>)
    ELSE Area("list", "", [i \in 1..Len(resp.functions) |-> Item(resp.functions[i])])

\* A faulty handleFileUploadResponse: the response to an upload that is no
\* longer the last one is dropped.
handleFileUploadResponseLatestOnly(req, resp) ==
    /\ controller = "app"
    /\ req \in analyzeReqs
    /\ analyzeReqs' = analyzeReqs \ {req}
    /\ analyzeArrived' = analyzeArrived + 1
    /\ landed' = Landed("analyze", req, resp)
    /\ IF req.id # analyzeSent
       THEN UNCHANGED <<codeContent, analysisContent>>
       ELSE IF AnalyzeThrows(resp)
       THEN /\ codeContent' = "Error loading file."
            /\ analysisContent' = Area("Error", ErrorMessage(resp), <<>>)
       ELSE /\ codeContent' = "data.source_code || # No source code returned"
            /\ analysisContent' = renderAnalysis(resp)
    /\ UNCHANGED <<wrapVars, controller, currentFile, currentSelection, functionCache,
                   fileNameDisplay, geminiPanelHidden, geminiContent, btnAskText,
                   btnAskDisabled, explainPassed, listVars, explainReqs,
                   uploads, analyzeSent, explainSent>>

\* The continuation of handleFileUpload when the response lands.
handleFileUploadResponse(req, resp) ==
    /\ controller = "app"
    /\ req \in analyzeReqs
    /\ analyzeReqs' = analyzeReqs \ {req}
    /\ analyzeArrived' = analyzeArrived + 1
    /\ landed' = Landed("analyze", req, resp)
    /\ IF AnalyzeThrows(resp)
       THEN /\ codeContent' = "Error loading file."
            /\ analysisContent' = Area("Error", ErrorMessage(resp), <<>>)
       ELSE /\ codeContent' = "data.source_code || # No source code returned"
            /\ analysisContent' = renderAnalysis(resp)
    /\ UNCHANGED <<wrapVars, controller, currentFile, currentSelection, functionCache,
                   fileNameDisplay, geminiPanelHidden, geminiContent, btnAskText,
                   btnAskDisabled, explainPassed, listVars, explainReqs,
                   uploads, analyzeSent, explainSent>>

\* Whether functionCache[name] is truthy: the test of selectFunction.
CacheHit(name) ==
    /\ name \in DOMAIN functionCache
    /\ Truthy(functionCache[name])

\* A faulty selectFunctionNetwork: a cache miss fetches the explanation at once.
selectFunctionNetworkAutoFetch(funcData) ==
    IF CacheHit(funcData.name) \/ explainSent >= MaxExplains
    THEN UNCHANGED <<explainReqs, explainSent>>
    ELSE /\ explainReqs' = explainReqs \cup
               {[id |-> explainSent + 1, file |-> currentFile, name |-> funcData.name,
                 item |-> 0, box |-> 0, attached |-> TRUE]}
         /\ explainSent' = explainSent + 1

\* The network effect of selectFunction: neither branch calls fetch.
selectFunctionNetwork(funcData) ==
    UNCHANGED <<explainReqs, explainSent>>

\* selectFunction(element, funcData): a click on the i-th entry of the list.
selectFunction(i) ==
    /\ controller = "app"
    /\ analysisContent.kind = "list"
    /\ i \in DOMAIN analysisContent.items
    /\ landed' = None
    /\ LET funcData == analysisContent.items[i].func IN
       /\ analysisContent' =
             [analysisContent EXCEPT !.items =
                 [j \in DOMAIN analysisContent.items |->
                     [analysisContent.items[j] EXCEPT !.selected = (j = i)]]]
       /\ currentSelection' = Some(funcData)
       /\ geminiPanelHidden' = FALSE
       /\ IF CacheHit(funcData.name)
          THEN /\ geminiContent' = Content("marked", functionCache[funcData.name])
               /\ btnAskText' = "Explain Again"
          ELSE /\ geminiContent' = Content("Click the button", "")
               /\ btnAskText' = "Explain Function"
       /\ selectFunctionNetwork(funcData)
    /\ UNCHANGED <<wrapVars, controller, currentFile, functionCache, fileNameDisplay,
                   codeContent, btnAskDisabled, explainPassed, listVars,
                   analyzeReqs, uploads, analyzeSent, analyzeArrived>>

\* A faulty FetchGuard: the selection is not tested.
FetchGuardFileOnly == currentFile # NoFile

\* The guard of fetchExplanation: if (!currentFile || !currentSelection) return.
FetchGuard == currentFile # NoFile /\ currentSelection # None

\* An explain request in flight.  file and name are what the request carries;
\* item, box and attached are used by the list page only.
ExplainRequest(file, name, item, box) ==
    [id |-> explainSent + 1, file |-> file, name |-> name,
     item |-> item, box |-> box, attached |-> TRUE]

\* A click on btnAsk that the guard turns away.  A disabled button fires no
\* click event.
fetchExplanationIgnored ==
    /\ controller = "app"
    /\ ~btnAskDisabled
    /\ ~FetchGuard
    /\ landed' = None
    /\ UNCHANGED <<wrapVars, controller, currentFile, appVars, listVars, netVars, countVars>>

\* A faulty fetchExplanation: the button stays enabled while the request is
\* in flight.
fetchExplanationLeavingEnabled ==
    /\ controller = "app"
    /\ ~btnAskDisabled
    /\ explainPassed < MaxExplains
    /\ FetchGuard
    /\ landed' = None
    /\ explainPassed' = explainPassed + 1
    /\ btnAskDisabled' = FALSE
    /\ IF currentSelection = None
       THEN /\ geminiContent' = Content("Error fetching explanation.", "")
            /\ btnAskText' = "Try Again"
            /\ UNCHANGED <<explainReqs, explainSent>>
       ELSE /\ btnAskText' = "Thinking..."
            /\ geminiContent' = Content("Gemini is analyzing...", "")
            /\ explainReqs' = explainReqs \cup
                  {ExplainRequest(currentFile, currentSelection[1].name, 0, 0)}
            /\ explainSent' = explainSent + 1
    /\ UNCHANGED <<wrapVars, controller, currentFile, currentSelection, functionCache,
                   fileNameDisplay, codeContent, analysisContent, geminiPanelHidden,
                   listVars, analyzeReqs, uploads, analyzeSent, analyzeArrived>>

\* fetchExplanation(), up to the await of fetch.  Reading currentSelection.name
\* of a null selection throws inside the try block and lands in the catch.
fetchExplanation ==
    /\ controller = "app"
    /\ ~btnAskDisabled
    /\ explainPassed < MaxExplains
    /\ FetchGuard
    /\ landed' = None
    /\ explainPassed' = explainPassed + 1
    /\ IF currentSelection = None
       THEN /\ geminiContent' = Content("Error fetching explanation.", "")
            /\ btnAskText' = "Try Again"
            /\ btnAskDisabled' = FALSE
            /\ UNCHANGED <<explainReqs, explainSent>>
       ELSE /\ btnAskDisabled' = TRUE
            /\ btnAskText' = "Thinking..."
            /\ geminiContent' = Content("Gemini is analyzing...", "")
            /\ explainReqs' = explainReqs \cup
                  {ExplainRequest(currentFile, currentSelection[1].name, 0, 0)}
            /\ explainSent' = explainSent + 1
    /\ UNCHANGED <<wrapVars, controller, currentFile, currentSelection, functionCache,
                   fileNameDisplay, codeContent, analysisContent, geminiPanelHidden,
                   listVars, analyzeReqs, uploads, analyzeSent, analyzeArrived>>

\* Whether fetch or response.json() rejects; the status is not inspected.
ExplainRejects(resp) == resp.fetch = "rejects" \/ resp.json = "malformed"

\* marked.parse throws on an input that is undefined.
MarkedThrows(src) == src = Undefined

\* The key of the cache write: functionCache[currentSelection.name], read when
\* the response lands.
CacheKey(req) == currentSelection[1].name

\* A faulty CacheWrite: an entry that exists is kept.
CacheWriteKeepsFirst(key, value) ==
    IF key \in DOMAIN functionCache THEN functionCache
    ELSE CachePut(functionCache, key, value)

\* A faulty CacheWrite: the cache is replaced by one holding the new entry
\* only.
CacheWriteSingleEntry(key, value) == CachePut(EmptyCache, key, value)

\* The cache after the write of data.explanation.
CacheWrite(key, value) == CachePut(functionCache, key, value)

\* The continuation of fetchExplanation when the response lands.
fetchExplanationResponse(req, resp) ==
    /\ controller = "app"
    /\ req \in explainReqs
    /\ explainReqs' = explainReqs \ {req}
    /\ landed' = Landed("explain", req, resp)
    /\ IF ExplainRejects(resp)
       THEN /\ UNCHANGED functionCache
            /\ geminiContent' = Content("Error fetching explanation.", "")
            /\ btnAskText' = "Try Again"
       ELSE /\ functionCache' = CacheWrite(CacheKey(req), resp.explanation)
            /\ IF MarkedThrows(resp.explanation)
               THEN /\ geminiContent' = Content("Error fetching explanation.", "")
                    /\ btnAskText' = "Try Again"
               ELSE /\ geminiContent' = Content("cards", resp.explanation)
                    /\ btnAskText' = "Explain Again"
    /\ btnAskDisabled' = FALSE
    /\ UNCHANGED <<wrapVars, controller, currentFile, currentSelection, fileNameDisplay,
                   codeContent, analysisContent, geminiPanelHidden, explainPassed,
                   listVars, analyzeReqs, countVars>>

\* ===================================================== unnamed/part_000

\* An entry of the list page: the record, its "explain" button and its
\* explanation box.
ListItem(func) ==
    [func |-> func, btnText |-> "Ask Gemini to Explain", btnDisabled |-> FALSE,
     boxShown |-> FALSE, boxContent |-> Content("empty", "")]

\* Replacing functionsList.innerHTML removes the former entries from the
\* document: the continuations that hold them update detached elements.
Detach(reqs) == {[r EXCEPT !.attached = FALSE] : r \in reqs}

\* handleFileUpload(file) of the list page, up to the await of fetch.
listHandleFileUpload(file) ==
    /\ controller = "list"
    /\ uploads < MaxUploads
    /\ currentFile' = file
    /\ fileNameTitle' = [kind |-> "Analyzing", file |-> file]
    /\ landed' = None
    /\ resultsAreaShown' = TRUE
    /\ functionsList' = Area("Analyzing code structure...", "", <<>>)
    /\ analyzeReqs' = analyzeReqs \cup {AnalyzeRequest(file)}
    /\ explainReqs' = Detach(explainReqs)
    /\ uploads' = uploads + 1
    /\ analyzeSent' = analyzeSent + 1
    /\ alert' = ""
    /\ UNCHANGED <<wrapVars, controller, appVars, analyzeArrived, explainSent>>

\* Whether renderResults throws: data.functions.length of a body without
\* the field.
RenderResultsThrows(resp) == resp.json = "no_functions"

\* A faulty renderResults: without the empty-list branch, an empty list
\* renders as a list of no entries and no message.
renderResultsNoEmptyState(resp) ==
    Area("list", "", [i \in 1..Len(resp.functions) |-> ListItem(resp.functions[i])])

\* renderResults(data): the new content of functionsList.
renderResults(resp) ==
    IF Len(resp.functions) = 0
    THEN Area("No functions found in this file.", "", <<>>)
    ELSE Area("list", "", [i \in 1..Len(resp.functions) |-> ListItem(resp.functions[i])])

\* The continuation of the list page's handleFileUpload.
listHandleFileUploadResponse(req, resp) ==
    /\ controller = "list"
    /\ req \in analyzeReqs
    /\ analyzeReqs' = analyzeReqs \ {req}
    /\ analyzeArrived' = analyzeArrived + 1
    /\ landed' = Landed("analyze", req, resp)
    /\ explainReqs' = Detach(explainReqs)
    /\ IF AnalyzeThrows(resp)
       THEN /\ functionsList' = Area("Error", ErrorMessage(resp), <<>>)
            /\ UNCHANGED fileNameTitle
       ELSE IF RenderResultsThrows(resp)
       THEN /\ functionsList' = Area("Error", "Cannot read properties of undefined", <<>>)
            /\ UNCHANGED fileNameTitle
       ELSE /\ functionsList' = renderResults(resp)
            /\ fileNameTitle' = [kind |-> "Analysis", file |-> req.file]
    /\ alert' = ""
    /\ UNCHANGED <<wrapVars, controller, currentFile, appVars, resultsAreaShown,
                   uploads, analyzeSent, explainSent>>

\* document.getElementById(`explain-${funcName}`): the first entry whose box
\* carries that id.
OutputBox(items, funcName) ==
    CHOOSE j \in DOMAIN items :
        /\ items[j].func.name = funcName
        /\ \A k \in DOMAIN items : items[k].func.name = funcName => j <= k

\* window.getExplanation(funcName, btnElement), up to the await of fetch: a
\* click on the button of the i-th entry.
getExplanation(i) ==
    /\ controller = "list"
    /\ functionsList.kind = "list"
    /\ i \in DOMAIN functionsList.items
    /\ ~functionsList.items[i].btnDisabled
    /\ landed' = None
    /\ explainSent < MaxListExplains
    /\ LET funcName == functionsList.items[i].func.name IN
       /\ functionsList' = [functionsList EXCEPT
             !.items[i].btnDisabled = TRUE,
             !.items[i].btnText = "Explaining..."]
       /\ explainReqs' = explainReqs \cup
             {ExplainRequest(currentFile, funcName, i,
                             OutputBox(functionsList.items, funcName))}
    /\ explainSent' = explainSent + 1
    /\ alert' = ""
    /\ UNCHANGED <<wrapVars, controller, currentFile, appVars, fileNameTitle,
                   resultsAreaShown, analyzeReqs, uploads, analyzeSent,
                   analyzeArrived>>

\* data.explanation.replace throws on a body without the field.
ReplaceThrows(explanation) == explanation = Undefined

\* The entries after the continuation of getExplanation has run on them.
ExplainedItems(items, req, resp) ==
    IF ExplainRejects(resp)
    THEN [items EXCEPT ![req.item].btnText = "Error - Try Again",
                       ![req.item].btnDisabled = FALSE]
    ELSE IF ReplaceThrows(resp.explanation)
    THEN [items EXCEPT ![req.box].boxShown = TRUE,
                       ![req.item].btnText = "Error - Try Again",
                       ![req.item].btnDisabled = FALSE]
    ELSE [[items EXCEPT ![req.box].boxShown = TRUE,
                        ![req.box].boxContent = Content("Gemini says:", resp.explanation)]
             EXCEPT ![req.item].btnText = "Explain Again",
                    ![req.item].btnDisabled = FALSE]

\* The continuation of getExplanation when the response lands.
getExplanationResponse(req, resp) ==
    /\ controller = "list"
    /\ req \in explainReqs
    /\ explainReqs' = explainReqs \ {req}
    /\ landed' = Landed("explain", req, resp)
    /\ functionsList' =
          IF req.attached
          THEN [functionsList EXCEPT !.items = ExplainedItems(@, req, resp)]
          ELSE functionsList
    /\ alert' = IF ExplainRejects(resp) \/ ReplaceThrows(resp.explanation)
                THEN "Failed to get explanation" ELSE ""
    /\ UNCHANGED <<wrapVars, controller, currentFile, appVars, fileNameTitle,
                   resultsAreaShown, analyzeReqs, countVars>>

\* ============================== frontend/app.js: the section wrapping

\* The markup of fetchExplanation is modelled as a sequence of tokens: tags
\* and pieces of text.  An explanation is a sequence of blocks: a level-3
\* heading ("h3"), a paragraph ("p"), or a paragraph that holds a risk word
\* ("risk").
BlockKinds == {"h3", "p", "risk"}
Docs == UNION {[1..n -> BlockKinds] : n \in 0..MaxBlocks}
CardOpen == "<div class=\"expl-card\">"
SpanOpen == "<span class=\"risk-text HIGH\">"

\* The concatenation of by[seq[1]], ..., by[seq[Len(seq)]]: every element
\* replaced by a sequence of tokens.
FlatMap(seq, by) ==
    LET f[i \in 0..Len(seq)] == IF i = 0 THEN <<>> ELSE f[i - 1] \o by[seq[i]]
    IN f[Len(seq)]

\* What marked.parse emits for one block.
BlockTokens(b) ==
    IF b = "h3" THEN <<"<h3>", "text", "</h3>">>
    ELSE IF b = "p" THEN <<"<p>", "text", "</p>">>
    ELSE <<"<p>", "HIGH", "</p>">>

\* marked.parse(data.explanation).
MarkedParse(bs) == FlatMap(bs, [b \in BlockKinds |-> BlockTokens(b)])

\* htmlContent.replace(/<h3>/g, '</div><div class="expl-card"><h3>').
ReplaceH3Token(t) == IF t = "<h3>" THEN <<"</div>", CardOpen, "<h3>">> ELSE <<t>>
ReplaceH3(html) ==
    FlatMap(html, [t \in {html[i] : i \in DOMAIN html} |-> ReplaceH3Token(t)])

\* htmlContent.replace(/^<\/div>/, ""): only a match at the very start.
StripLeadingClose(html) ==
    IF html # <<>> /\ Head(html) = "</div>" THEN Tail(html) ELSE html

\* htmlContent += "</div>".
CloseLast(html) == Append(html, "</div>")

\* htmlContent.replace(/(HIGH|MEDIUM|LOW)/g, '<span class="risk-text $1">$1</span>').
HighlightToken(t) == IF t = "HIGH" THEN <<SpanOpen, "HIGH", "</span>">> ELSE <<t>>
HighlightRisk(html) ==
    FlatMap(html, [t \in {html[i] : i \in DOMAIN html} |-> HighlightToken(t)])

\* Steps 2 and 3 of fetchExplanation's try block, in the order of the code.
WrapSections(html) == HighlightRisk(CloseLast(StripLeadingClose(ReplaceH3(html))))

\* The statements of fetchExplanation that build htmlContent from the
\* explanation.
wrapSections ==
    /\ controller = "app"
    /\ htmlContent = None
    /\ htmlContent' = Some(WrapSections(MarkedParse(blocks)))
    /\ UNCHANGED <<sessionVars, blocks>>

\* The dashboard before any event, with an explanation about to be rendered.
WrapInit ==
    /\ controller = "app"
    /\ currentFile = NoFile
    /\ currentSelection = None
    /\ functionCache = EmptyCache
    /\ fileNameDisplay = NoFile
    /\ codeContent = "initial"
    /\ analysisContent = Area("initial", "", <<>>)
    /\ geminiPanelHidden = TRUE
    /\ geminiContent = Content("initial", "")
    /\ btnAskText = "initial"
    /\ btnAskDisabled = FALSE
    /\ fileNameTitle = [kind |-> "initial", file |-> NoFile]
    /\ resultsAreaShown = FALSE
    /\ functionsList = Area("initial", "", <<>>)
    /\ alert = ""
    /\ analyzeReqs = {}
    /\ explainReqs = {}
    /\ uploads = 0
    /\ analyzeSent = 0
    /\ analyzeArrived = 0
    /\ landed = None
    /\ explainPassed = 0
    /\ explainSent = 0
    /\ blocks \in Docs
    /\ htmlContent = None

WrapNext == wrapSections

WrapSpec == WrapInit /\ [][WrapNext]_vars

\* ============================================================== system
Next ==
    \/ \E file \in {NewFile} : handleFileUpload(file)
    \/ \E req \in analyzeReqs, resp \in AnalyzeResponses :
          handleFileUploadResponse(req, resp)
    \/ \E i \in DOMAIN analysisContent.items : selectFunction(i)
    \/ fetchExplanationIgnored
    \/ fetchExplanation
    \/ \E req \in explainReqs, resp \in ExplainResponses :
          fetchExplanationResponse(req, resp)
    \/ \E file \in {NewFile} : listHandleFileUpload(file)
    \/ \E req \in analyzeReqs, resp \in AnalyzeResponses :
          listHandleFileUploadResponse(req, resp)
    \/ \E i \in DOMAIN functionsList.items : getExplanation(i)
    \/ \E req \in explainReqs, resp \in ExplainResponses :
          getExplanationResponse(req, resp)

Spec == Init /\ [][Next]_vars

\* ============================================================== claims

\* What the claims observe.
ResultArea == IF controller = "app" THEN analysisContent ELSE functionsList
Entries(area) == [i \in DOMAIN area.items |-> area.items[i].func]
LandedKind(kind) == landed # None /\ landed[1].kind = kind
\* A failed request: network error, non-2xx status or unparsable body.
Failed(resp) == resp.fetch = "rejects" \/ ~resp.ok \/ resp.json = "malformed"
\* A successful explain response: 2xx with an explanation text.
Explained(resp) ==
    /\ resp.fetch = "resolves" /\ resp.ok /\ resp.json = "object"
    /\ resp.explanation \in Explanations
\* A successful analyze response: 2xx with a function list.
Analyzed(resp) == resp.fetch = "resolves" /\ resp.ok /\ resp.json = "object"

\* C1: when an explain response resolves successfully, the explanation is in
\* the cache under the function name the request was issued for, whatever
\* was selected in between.
C1_StoredUnderRequestedName ==
    (controller = "app" /\ LandedKind("explain") /\ Explained(landed[1].resp))
    => /\ landed[1].name \in DOMAIN functionCache
       /\ functionCache[landed[1].name] = landed[1].resp.explanation

\* C2: an upload event leaves the new file as the current file, an empty
\* cache and a null selection.
C2_UploadResetsSession ==
    [][(controller = "app" /\ uploads' = uploads + 1)
       => /\ currentFile' = uploads + 1
          /\ functionCache' = EmptyCache
          /\ currentSelection' = None]_vars

\* C3: the explain requests sent are exactly the explain activations that
\* passed the file/selection guard: no selection ever sends one.
C3_OnlyGuardedClicksSend ==
    controller = "app"
    => /\ explainSent = explainPassed
       /\ \A r \in explainReqs : r.id <= explainPassed
C3_Witness ==
    /\ controller = "app"
    /\ explainSent = 1
    /\ explainReqs = {}
    /\ currentSelection # None
    /\ geminiContent.kind = "marked"
    /\ \E n \in Names : n \notin DOMAIN functionCache

\* C4: a selection shows the cached explanation with "Explain Again" whenever
\* the cache holds an entry for the name, and the prompt with "Explain
\* Function" only when it holds none.
C4_SelectionShowsCacheEntry ==
    [][\A i \in DOMAIN analysisContent.items :
          selectFunction(i) =>
             LET name == analysisContent.items[i].func.name IN
             IF name \in DOMAIN functionCache
             THEN /\ geminiContent' = Content("marked", functionCache[name])
                  /\ btnAskText' = "Explain Again"
             ELSE /\ geminiContent' = Content("Click the button", "")
                  /\ btnAskText' = "Explain Function"]_vars

\* C5: a guarded explain activation sends a request for the selected
\* function also when that function is cached already (the cache is not
\* consulted), and when the response for the selected function lands, the
\* cache entry of that function is the explanation of that response,
\* whatever the entry was before.
C5_ExplainAgainRefetches ==
    [][controller = "app" =>
        /\ (explainPassed' = explainPassed + 1)
           => /\ explainSent' = explainSent + 1
              /\ \E r \in explainReqs' \ explainReqs :
                    /\ r.name = currentSelection[1].name
                    /\ r.file = currentFile
        /\ (/\ landed' # None
            /\ landed'[1].kind = "explain"
            /\ Explained(landed'[1].resp)
            /\ currentSelection[1].name = landed'[1].name)
           => /\ landed'[1].name \in DOMAIN functionCache'
              /\ functionCache'[landed'[1].name] = landed'[1].resp.explanation]_vars
C5_Witness ==
    /\ controller = "app"
    /\ uploads = 1
    /\ explainSent = 2
    /\ LandedKind("explain")
    /\ landed[1].resp.explanation = "e2"
    /\ Explained(landed[1].resp)
    /\ functionCache = [n \in {landed[1].name} |-> "e2"]
    /\ btnAskText = "Explain Again"

\* C6: with no file or no selection, a step that is neither an upload, nor a
\* selection, nor a landing response (an explain activation) sends nothing
\* and leaves cache, selection, panel, label and enabled state alone.
C6_UnguardedExplainIsNoop ==
    [][(/\ controller = "app"
        /\ (currentFile = NoFile \/ currentSelection = None)
        /\ uploads' = uploads
        /\ currentSelection' = None
        /\ landed' = None)
       => UNCHANGED <<explainReqs, explainSent, functionCache, currentSelection,
                      geminiContent, btnAskText, btnAskDisabled, geminiPanelHidden>>]_vars
\* Only an ignored activation leads here: the analysis has landed, and the
\* step after it was no upload, no selection and no response.
C6_Witness ==
    /\ controller = "app"
    /\ uploads = 1 /\ analyzeArrived = 1
    /\ currentFile # NoFile
    /\ currentSelection = None
    /\ landed = None
    /\ explainSent = 0

\* C7: a failed explain request ends with the inline error state, the control
\* enabled and labelled "Try Again", and no further request sent.
C7_FailedExplainShowsError ==
    (controller = "app" /\ LandedKind("explain") /\ Failed(landed[1].resp))
    => /\ geminiContent = Content("Error fetching explanation.", "")
       /\ btnAskText = "Try Again"
       /\ ~btnAskDisabled
       /\ explainReqs = {}

\* C8: when an analyze request fails, the result area shows an error message
\* and no entries, the current file is still the file uploaded last, and the
\* request is not sent again.
C8_FailedAnalyzeShowsError ==
    (LandedKind("analyze") /\ Failed(landed[1].resp))
    => /\ ResultArea.kind = "Error"
       /\ ResultArea.message # ""
       /\ ResultArea.items = <<>>
       /\ currentFile = uploads
       /\ analyzeSent = uploads
       /\ \A r \in analyzeReqs : r.id # landed[1].id
C8_Witness ==
    /\ LandedKind("analyze")
    /\ landed[1].resp.fetch = "resolves"
    /\ ~landed[1].resp.ok
    /\ landed[1].resp.json = "object"
    /\ landed[1].resp.functions # <<>>
    /\ ResultArea.kind = "Error"

\* What the result area shows for a response.
Shown(resp) ==
    IF Failed(resp) THEN "Error"
    ELSE IF resp.json = "no_functions"
         THEN (IF controller = "app" THEN "No functions found." ELSE "Error")
    ELSE IF resp.functions = <<>>
         THEN (IF controller = "app" THEN "No functions found."
                                     ELSE "No functions found in this file.")
    ELSE "list"

\* C9: every upload sends exactly one analyze request, none is cancelled by a
\* later upload, and a landing response is rendered whatever upload it
\* answers: the response that lands last is the one shown.
C9_LastResponseWins ==
    /\ analyzeSent = uploads
    /\ Cardinality(analyzeReqs) + analyzeArrived = analyzeSent
    /\ {r.id : r \in analyzeReqs} \subseteq 1..analyzeSent
    /\ LandedKind("analyze")
       => /\ ResultArea.kind = Shown(landed[1].resp)
          /\ ResultArea.kind = "list" => Entries(ResultArea) = landed[1].resp.functions
C9_Witness ==
    /\ uploads = 2 /\ analyzeArrived = 2 /\ analyzeReqs = {}
    /\ LandedKind("analyze")
    /\ landed[1].id = 1
    /\ currentFile = 2
    /\ Analyzed(landed[1].resp)
    /\ Len(landed[1].resp.functions) = 2
    /\ Entries(ResultArea) = landed[1].resp.functions

\* C10: a successful analyze response with N >= 1 records is rendered as
\* exactly N entries, the i-th for the i-th record, with nothing left of a
\* previous render.
C10_OneEntryPerRecord ==
    (/\ LandedKind("analyze")
     /\ Analyzed(landed[1].resp)
     /\ Len(landed[1].resp.functions) >= 1)
    => /\ ResultArea.kind = "list"
       /\ Len(ResultArea.items) = Len(landed[1].resp.functions)
       /\ \A i \in 1..Len(landed[1].resp.functions) :
             ResultArea.items[i].func = landed[1].resp.functions[i]
C10_Witness ==
    /\ analyzeArrived = 2
    /\ LandedKind("analyze")
    /\ Analyzed(landed[1].resp)
    /\ Len(landed[1].resp.functions) = 1
    /\ Len(ResultArea.items) = 1

\* C11: when a successful analyze response carries an empty function list,
\* the result area shows the controller's "no functions found" message with
\* no entry, and not the error state.
C11_EmptyListShowsEmptyState ==
    (LandedKind("analyze") /\ Analyzed(landed[1].resp)
        /\ landed[1].resp.functions = <<>>)
    => /\ ResultArea.kind = (IF controller = "app"
                             THEN "No functions found."
                             ELSE "No functions found in this file.")
       /\ ResultArea.kind # "Error"
       /\ ResultArea.items = <<>>
C11_Witness ==
    /\ controller = "list"
    /\ LandedKind("analyze")
    /\ Analyzed(landed[1].resp)
    /\ landed[1].resp.functions = <<>>
    /\ functionsList.kind = "No functions found in this file."
    /\ analyzeArrived = 2

\* C12 (as stated): once an explanation (a non-empty text) is stored for a
\* function name, no step other than an upload changes the cached value of
\* that name.
C12_StoredValueNeverChanges ==
    [][(controller = "app" /\ uploads' = uploads)
       => \A n \in DOMAIN functionCache :
             Truthy(functionCache[n])
             => /\ n \in DOMAIN functionCache'
                /\ functionCache'[n] = functionCache[n]]_vars

\* C12 (amended): the cache changes only when an upload empties it or when
\* an explain response lands, and a landing response writes its explanation
\* field into one entry and leaves every other entry as it was; selections
\* and explain activations never change the cache.
C12_CacheChangesOnlyByResponseOrUpload ==
    [][(controller = "app" /\ functionCache' # functionCache)
       => \/ /\ uploads' = uploads + 1
             /\ functionCache' = EmptyCache
          \/ /\ uploads' = uploads
             /\ landed' # None
             /\ landed'[1].kind = "explain"
             /\ \E k \in Names :
                   functionCache' =
                      CachePut(functionCache, k, landed'[1].resp.explanation)]_vars
C12_Witness ==
    /\ controller = "app"
    /\ uploads = 1
    /\ LandedKind("explain")
    /\ DOMAIN functionCache = Names
    /\ \A n \in Names : functionCache[n] \in Explanations \ {""}
    /\ Explained(landed[1].resp)
    /\ functionCache[landed[1].name] = landed[1].resp.explanation
    /\ \E n \in Names : functionCache[n] # landed[1].resp.explanation

\* The property through which each element receives a text coming from a
\* service response: "innerHTML" parses the text as markup, "textContent"
\* inserts it as a text node.  marked.parse keeps the inline markup of its
\* input, so the panel's innerHTML receives the explanation as markup.
ItemSink        == "innerHTML"
ErrorSink       == "innerHTML"
ExplanationSink == "innerHTML"
CodeSink        == "textContent"
ListItemSink    == "innerHTML"
ListErrorSink   == "innerHTML"
OutputBoxSink   == "innerHTML"
AlertSink       == "textContent"

\* A text of the document that came from a service response, with the field
\* it was read from and the sink it was written through.
\* Of the error messages, the one of a body that is not JSON quotes the body.
Rendered(field, text, sink) == [field |-> field, text |-> text, sink |-> sink]

\* The response texts the dashboard shows.
AppServiceTexts ==
    UNION {{Rendered("name", analysisContent.items[i].func.name, ItemSink),
            Rendered("risk_level", analysisContent.items[i].func.risk_level, ItemSink)}
           : i \in DOMAIN analysisContent.items}
    \cup (IF analysisContent.kind = "Error" /\ analysisContent.message = "Unexpected token"
          THEN {Rendered("error.message", analysisContent.message, ErrorSink)}
          ELSE {})
    \cup (IF geminiContent.kind \in {"marked", "cards"}
          THEN {Rendered("explanation", geminiContent.text, ExplanationSink)}
          ELSE {})
    \cup (IF codeContent = "data.source_code || # No source code returned"
          THEN {Rendered("source_code", codeContent, CodeSink)}
          ELSE {})

\* The response texts the list page shows.
ListServiceTexts ==
    UNION {{Rendered("name", functionsList.items[i].func.name, ListItemSink),
            Rendered("risk_level", functionsList.items[i].func.risk_level, ListItemSink)}
           \cup (IF functionsList.items[i].boxContent.kind = "Gemini says:"
                 THEN {Rendered("explanation",
                                functionsList.items[i].boxContent.text, OutputBoxSink)}
                 ELSE {})
           : i \in DOMAIN functionsList.items}
    \cup (IF functionsList.kind = "Error" /\ functionsList.message = "Unexpected token"
          THEN {Rendered("error.message", functionsList.message, ListErrorSink)}
          ELSE {})
    \cup (IF alert # ""
          THEN {Rendered("error.message", alert, AlertSink)}
          ELSE {})

ServiceTexts == IF controller = "app" THEN AppServiceTexts ELSE ListServiceTexts

\* C13: every text of the document that came from a service response was
\* written through a text-node sink, never through a markup-parsing one.
C13_ServiceTextsAreEscaped ==
    \A t \in ServiceTexts : t.sink = "textContent"

\* C14: when an explain response lands while a function other than the one
\* it was requested for is selected, the panel keeps the content it shows for
\* the current selection.
C14_OtherSelectionKeepsPanel ==
    [][(/\ controller = "app"
        /\ landed' # None
        /\ landed'[1].kind = "explain"
        /\ currentSelection # None
        /\ currentSelection[1].name # landed'[1].name)
       => geminiContent' = geminiContent]_vars

\* C15: on the dashboard the button is disabled exactly while an explain
\* request is in flight, at most one explain request is in flight, and the
\* button is enabled when a response has just been handled.
C15_DisabledExactlyWhileOutstanding ==
    controller = "app"
    => /\ btnAskDisabled <=> (explainReqs # {})
       /\ Cardinality(explainReqs) <= 1
       /\ LandedKind("explain") => ~btnAskDisabled
C15_Witness ==
    /\ controller = "app"
    /\ btnAskDisabled
    /\ uploads = 2
    /\ currentSelection # None
    /\ \E r \in explainReqs :
          /\ r.file # currentFile
          /\ r.name # currentSelection[1].name

\* C16: the response to an explain request that was sent with a file other
\* than the one now loaded (a request issued before the last upload) leaves
\* the cache of the new session as it is.
C16_StaleResponseLeavesCache ==
    [][controller = "app"
       => \A r \in explainReqs \ explainReqs' :
             r.file # currentFile => functionCache' = functionCache]_vars

\* C17: whenever an explain request is sent, its name belongs to the list
\* returned by the analyze request for the file it carries.  Stated through
\* what that needs in every case: the analyze request for that file has
\* returned, and on the list page, whose title names the file of the listed
\* analysis, the listed analysis is the one of that file.
C17_RequestPairsFileWithItsAnalysis ==
    [][(explainSent' = explainSent + 1)
       => \A r \in explainReqs' :
             (r.id = explainSent')
             => /\ \A a \in analyzeReqs : a.file # r.file
                /\ (controller = "list")
                   => fileNameTitle = [kind |-> "Analysis", file |-> r.file]]_vars

\* C18: an explain response that failed (network error, non-2xx status,
\* unparsable body, or a body without the explanation field) leaves the
\* cache as it was.
C18_FailedExplainLeavesCache ==
    [][(/\ controller = "app"
        /\ landed' # None
        /\ landed'[1].kind = "explain"
        /\ (Failed(landed'[1].resp) \/ landed'[1].resp.explanation = Undefined))
       => functionCache' = functionCache]_vars

\* The element a tag opens or closes.
Opens  == [t \in {"<h3>", "<p>", CardOpen, SpanOpen} |->
              IF t = "<h3>" THEN "h3" ELSE IF t = "<p>" THEN "p"
              ELSE IF t = CardOpen THEN "div" ELSE "span"]
Closes == [t \in {"</h3>", "</p>", "</div>", "</span>"} |->
              IF t = "</h3>" THEN "h3" ELSE IF t = "</p>" THEN "p"
              ELSE IF t = "</div>" THEN "div" ELSE "span"]
Unmatched == <<"unmatched">>

\* Markup is well nested when scanning it with a stack of open elements
\* meets no closing tag without its opening tag on top and ends with an
\* empty stack.
WellNested(html) ==
    LET open[i \in 0..Len(html)] ==
            IF i = 0 THEN <<>>
            ELSE LET prev == open[i - 1]
                     t    == html[i]
                 IN IF prev = Unmatched THEN Unmatched
                    ELSE IF t \in DOMAIN Opens THEN Append(prev, Opens[t])
                    ELSE IF t \in DOMAIN Closes
                    THEN IF prev # <<>> /\ prev[Len(prev)] = Closes[t]
                         THEN SubSeq(prev, 1, Len(prev) - 1)
                         ELSE Unmatched
                    ELSE prev
    IN open[Len(html)] = <<>>

\* The sectioned markup of a document: the blocks before the first heading
\* as they are, then for every heading one section block that holds the
\* heading and the blocks up to the next heading or the end.
Sections(bs) ==
    LET Headed(i) == \E j \in 1..i : bs[j] = "h3"
        out[i \in 0..Len(bs)] ==
            IF i = 0 THEN <<>>
            ELSE out[i - 1]
                 \o (IF bs[i] # "h3" THEN <<>>
                     ELSE (IF Headed(i - 1) THEN <<"</div>">> ELSE <<>>)
                          \o <<CardOpen>>)
                 \o HighlightRisk(BlockTokens(bs[i]))
    IN out[Len(bs)] \o (IF Headed(Len(bs)) THEN <<"</div>">> ELSE <<>>)

\* C19: for every explanation, the markup the section-wrapping step builds
\* is well nested and is the sectioned markup of the document: one section
\* block per level-3 heading, holding the heading and the content up to the
\* next heading or the end, also when the document does not start with a
\* heading or has none.
C19_SectionsAreWellNested ==
    htmlContent # None
    => /\ WellNested(htmlContent[1])
       /\ htmlContent[1] = Sections(blocks)

====
